---- MODULE Spec2Model ----
(***************************************************************************)
(* Model of findbrokeninternallinks.py: GetFilePaths, FileProcessor and    *)
(* the library functions they call (urlparse, os.path, os.walk, fnmatch).  *)
(* A Python string is a sequence of one-character strings, so that the     *)
(* anchor key f'{path}:{name}' is a real concatenation.                    *)
(***************************************************************************)
EXTENDS Integers, Sequences, FiniteSets, TLC

VARIABLES files, inputs, paths, pc, step, anchors, out,
          calls, added, lookups, run, prev_paths, prev_out, prev_pc

vars == <<files, inputs, paths, pc, step, anchors, out,
          calls, added, lookups, run, prev_paths, prev_out, prev_pc>>

\* ------------------------------------------------------------------------
\* Bounds.
\* ------------------------------------------------------------------------

\* Most <a href> elements in the whole document set.
MaxLinks == 1

\* Longest list handed to ProcessPaths directly.
MaxPaths == 2

\* Most command-line arguments.
MaxArgs == 2

\* Deepest chain of symbolic links followed before giving up (ELOOP).
MaxSymlinkDepth == 2

\* ------------------------------------------------------------------------
\* Strings.
\* ------------------------------------------------------------------------

\* Characters in code-point order, used by sorted().
CharOrder ==
  <<"#", "*", "+", "-", ".", "/", "0", "1", "2", "3", "4", "5", "6", "7",
    "8", "9", ":", ";", "?", "A", "B", "C", "D", "E", "F", "G", "H", "I",
    "J", "K", "L", "M", "N", "O", "P", "Q", "R", "S", "T", "U", "V", "W",
    "X", "Y", "Z", "[", "]", "a", "b", "c", "d", "e", "f", "g", "h", "i",
    "j", "k", "l", "m", "n", "o", "p", "q", "r", "s", "t", "u", "v", "w",
    "x", "y", "z">>

Ord(c) == CHOOSE i \in 1..Len(CharOrder) : CharOrder[i] = c

Alpha == {CharOrder[i] : i \in 20..45} \cup {CharOrder[i] : i \in 48..73}

Digits == {CharOrder[i] : i \in 7..16}

\* s < t for Python strings.
RECURSIVE StrLess(_, _)
StrLess(s, t) ==
  IF t = <<>> THEN FALSE
  ELSE IF s = <<>> THEN TRUE
  ELSE IF s[1] # t[1] THEN Ord(s[1]) < Ord(t[1])
  ELSE StrLess(Tail(s), Tail(t))

\* s.find(c, from), 1-based; 0 when absent.
Find(s, c, from) ==
  LET hits == {i \in from..Len(s) : s[i] = c}
  IN IF hits = {} THEN 0 ELSE CHOOSE i \in hits : \A j \in hits : i <= j

\* s.rfind(c), 1-based; 0 when absent.
RFind(s, c) ==
  LET hits == {i \in 1..Len(s) : s[i] = c}
  IN IF hits = {} THEN 0 ELSE CHOOSE i \in hits : \A j \in hits : i >= j

StartsWith(s, p) == Len(s) >= Len(p) /\ SubSeq(s, 1, Len(p)) = p

EndsWith(s, p) ==
  Len(s) >= Len(p) /\ SubSeq(s, Len(s) - Len(p) + 1, Len(s)) = p

From(s, i) == SubSeq(s, i, Len(s))

\* s.rstrip('/')
RECURSIVE RStripSlash(_)
RStripSlash(s) ==
  IF s # <<>> /\ s[Len(s)] = "/" THEN RStripSlash(SubSeq(s, 1, Len(s) - 1))
  ELSE s

AllSlashes(s) == \A i \in 1..Len(s) : s[i] = "/"

\* s.split('/')
RECURSIVE SplitPath(_)
SplitPath(s) ==
  LET i == Find(s, "/", 1)
  IN IF i = 0 THEN <<s>>
     ELSE <<SubSeq(s, 1, i - 1)>> \o SplitPath(From(s, i + 1))

\* '/'.join(comps)
RECURSIVE JoinSlash(_)
JoinSlash(comps) ==
  IF comps = <<>> THEN <<>>
  ELSE IF Len(comps) = 1 THEN comps[1]
  ELSE comps[1] \o <<"/">> \o JoinSlash(Tail(comps))

\* sorted(list of strings): insertion sort, duplicates kept.
RECURSIVE Insert(_, _)
Insert(x, sortedseq) ==
  IF sortedseq = <<>> THEN <<x>>
  ELSE IF StrLess(sortedseq[1], x) THEN <<sortedseq[1]>> \o Insert(x, Tail(sortedseq))
  ELSE <<x>> \o sortedseq

RECURSIVE sorted(_)
sorted(list) ==
  IF list = <<>> THEN <<>> ELSE Insert(list[1], sorted(Tail(list)))

\* A set of strings as a list in sorted order.
RECURSIVE SetToList(_)
SetToList(S) ==
  IF S = {} THEN <<>>
  ELSE LET x == CHOOSE y \in S : \A z \in S : z = y \/ StrLess(y, z)
       IN <<x>> \o SetToList(S \ {x})

\* ------------------------------------------------------------------------
\* The file system the program runs on.
\* ------------------------------------------------------------------------

ROOT == <<"/">>

\* /d, the working directory.
DIR_D == <<"/", "d">>

\* /d/s, a directory with an index page.
DIR_S == <<"/", "d", "/", "s">>

\* /d/l, a symbolic link to /d/s.
LINK_L == <<"/", "d", "/", "l">>

\* /d/s/index.html
FILE_A == <<"/", "d", "/", "s", "/", "i", "n", "d", "e", "x", ".", "h", "t", "m", "l">>

\* /d/b.htm
FILE_B == <<"/", "d", "/", "b", ".", "h", "t", "m">>

\* /d/p, a file that is not HTML and is never processed.
FILE_P == <<"/", "d", "/", "p">>

Cwd == DIR_D

Dirs == {ROOT, DIR_D, DIR_S}

RegularFiles == {FILE_A, FILE_B, FILE_P}

Symlinks == (LINK_L :> DIR_S)

Entries == Dirs \cup RegularFiles \cup DOMAIN Symlinks

NoEnt == <<"?", "E", "N", "O", "E", "N", "T">>

\* ------------------------------------------------------------------------
\* os.path (posixpath).
\* ------------------------------------------------------------------------

isabs(p) == StartsWith(p, <<"/">>)

\* posixpath.split(p) as <<head, tail>>.
split(p) ==
  LET i    == RFind(p, "/")
      head == SubSeq(p, 1, i)
      tail == From(p, i + 1)
  IN <<IF head # <<>> /\ ~AllSlashes(head) THEN RStripSlash(head) ELSE head,
       tail>>

dirname(p) == split(p)[1]

basename(p) == From(p, RFind(p, "/") + 1)

join(a, b) ==
  IF isabs(b) THEN b
  ELSE IF a = <<>> \/ EndsWith(a, <<"/">>) THEN a \o b
  ELSE a \o <<"/">> \o b

\* The loop of normpath over the components.
RECURSIVE NormComps(_, _, _)
NormComps(comps, new_comps, initial_slashes) ==
  IF comps = <<>> THEN new_comps
  ELSE LET comp == Head(comps)
           rest == Tail(comps)
       IN IF comp = <<>> \/ comp = <<".">>
            THEN NormComps(rest, new_comps, initial_slashes)
          ELSE IF \/ comp # <<".", ".">>
                  \/ (initial_slashes = 0 /\ new_comps = <<>>)
                  \/ (new_comps # <<>> /\ new_comps[Len(new_comps)] = <<".", ".">>)
            THEN NormComps(rest, Append(new_comps, comp), initial_slashes)
          ELSE IF new_comps # <<>>
            THEN NormComps(rest, SubSeq(new_comps, 1, Len(new_comps) - 1), initial_slashes)
          ELSE NormComps(rest, new_comps, initial_slashes)

normpath(path) ==
  IF path = <<>> THEN <<".">>
  ELSE LET initial_slashes ==
             IF ~isabs(path) THEN 0
             ELSE IF StartsWith(path, <<"/", "/">>) /\ ~StartsWith(path, <<"/", "/", "/">>)
               THEN 2
             ELSE 1
           body == JoinSlash(NormComps(SplitPath(path), <<>>, initial_slashes))
           res  == [i \in 1..initial_slashes |-> "/"] \o body
       IN IF res = <<>> THEN <<".">> ELSE res

abspath(path) == normpath(IF isabs(path) THEN path ELSE join(Cwd, path))

islink(p) == abspath(p) \in DOMAIN Symlinks

\* posixpath._joinrealpath(path, rest, ...), non-strict.  realpathloop is
\* its while loop; RealpathName is one iteration, for the component name
\* with rest2 still to go; RealpathLink is the iteration's end for a
\* component that is a symbolic link to target.
RECURSIVE realpathloop(_, _, _)
RECURSIVE RealpathName(_, _, _, _)
RECURSIVE RealpathLink(_, _, _, _)
realpathloop(path, rest, fuel) ==
  IF rest = <<>> THEN path
  ELSE IF Find(rest, "/", 1) = 0 THEN RealpathName(path, rest, <<>>, fuel)
  ELSE RealpathName(path, SubSeq(rest, 1, Find(rest, "/", 1) - 1),
                    From(rest, Find(rest, "/", 1) + 1), fuel)

RealpathName(path, name, rest2, fuel) ==
  IF name = <<>> \/ name = <<".">> THEN realpathloop(path, rest2, fuel)
  ELSE IF name = <<".", ".">>
    THEN IF path = <<>> THEN realpathloop(<<".", ".">>, rest2, fuel)
         ELSE IF split(path)[2] = <<".", ".">>
           THEN realpathloop(join(join(split(path)[1], <<".", ".">>), <<".", ".">>),
                             rest2, fuel)
         ELSE realpathloop(split(path)[1], rest2, fuel)
  ELSE IF ~islink(join(path, name)) \/ fuel = 0
    THEN realpathloop(join(path, name), rest2, fuel)
  ELSE RealpathLink(path, Symlinks[abspath(join(path, name))], rest2, fuel)

RealpathLink(path, target, rest2, fuel) ==
  IF isabs(target)
    THEN realpathloop(realpathloop(<<"/">>, Tail(target), fuel - 1), rest2, fuel)
  ELSE realpathloop(realpathloop(path, target, fuel - 1), rest2, fuel)

joinrealpath(path, rest, fuel) ==
  IF isabs(rest) THEN realpathloop(<<"/">>, Tail(rest), fuel)
  ELSE realpathloop(path, rest, fuel)

realpath(filename) == abspath(joinrealpath(<<>>, filename, MaxSymlinkDepth))

\* What stat(2) finds for path p: the entry reached, following symbolic
\* links, or NoEnt.  StatWalk walks the components from directory cur;
\* StatChild takes the step to the entry child of cur.
RECURSIVE StatWalk(_, _, _)
RECURSIVE StatChild(_, _, _, _)
StatWalk(cur, comps, fuel) ==
  IF comps = <<>> THEN cur
  ELSE IF cur \notin Dirs THEN NoEnt
  ELSE IF Head(comps) = <<>> \/ Head(comps) = <<".">>
    THEN StatWalk(cur, Tail(comps), fuel)
  ELSE IF Head(comps) = <<".", ".">>
    THEN StatWalk(IF cur = ROOT THEN ROOT ELSE dirname(cur), Tail(comps), fuel)
  ELSE StatChild(cur, join(cur, Head(comps)), Tail(comps), fuel)

StatChild(cur, child, rest, fuel) ==
  IF child \in DOMAIN Symlinks
    THEN IF fuel = 0 THEN NoEnt
         ELSE StatWalk(IF isabs(Symlinks[child]) THEN ROOT ELSE cur,
                       SplitPath(Symlinks[child]) \o rest, fuel - 1)
  ELSE IF child \in Dirs \cup RegularFiles THEN StatWalk(child, rest, fuel)
  ELSE NoEnt

Stat(p) ==
  IF p = <<>> THEN NoEnt
  ELSE StatWalk(IF isabs(p) THEN ROOT ELSE Cwd, SplitPath(p), MaxSymlinkDepth)

exists(p) == Stat(p) # NoEnt

isdir(p) == Stat(p) \in Dirs

\* ------------------------------------------------------------------------
\* urllib.parse.urlparse.
\* ------------------------------------------------------------------------

\* urllib.parse.scheme_chars
scheme_chars == Alpha \cup Digits \cup {"+", "-", "."}

\* s.split(c, 1) as <<before, after>>; the caller has checked c is in s.
SplitOnce(s, c) ==
  LET i == Find(s, c, 1) IN <<SubSeq(s, 1, i - 1), From(s, i + 1)>>

\* urllib.parse._splitnetloc(url, 2) as <<netloc, rest>>.
splitnetloc(url) ==
  LET ends  == {Find(url, c, 3) : c \in {"/", "?", "#"}} \ {0}
      delim == IF ends = {} THEN Len(url) + 1
               ELSE CHOOSE i \in ends : \A j \in ends : i <= j
  IN <<SubSeq(url, 3, delim - 1), From(url, delim)>>

\* urllib.parse._splitparams(url) as <<url, params>>.
splitparams(url) ==
  LET slash == RFind(url, "/")
      i     == IF slash > 0 THEN Find(url, ";", slash) ELSE Find(url, ";", 1)
  IN IF i = 0 THEN <<url, <<>>>> ELSE <<SubSeq(url, 1, i - 1), From(url, i + 1)>>

\* Length of the scheme urlsplit finds at the start of url (0: none).
SchemeLen(url) ==
  LET i == Find(url, ":", 1)
  IN IF /\ i > 1
        /\ url[1] \in Alpha
        /\ \A k \in 1..(i - 1) : url[k] \in scheme_chars
       THEN i - 1
     ELSE 0

\* The end of urlparse: the path and the params of url.
UrlParams(raises, scheme, netloc, url, query, fragment) ==
  LET split_ == IF scheme = <<>> /\ Find(url, ";", 1) > 0
                  THEN splitparams(url) ELSE <<url, <<>>>>
  IN [raises   |-> raises,
      scheme   |-> scheme,
      netloc   |-> netloc,
      path     |-> split_[1],
      params   |-> split_[2],
      query    |-> query,
      fragment |-> fragment]

\* urlsplit from the query on.
UrlQuery(raises, scheme, netloc, url, fragment) ==
  IF Find(url, "?", 1) > 0
    THEN UrlParams(raises, scheme, netloc, SplitOnce(url, "?")[1],
                   SplitOnce(url, "?")[2], fragment)
  ELSE UrlParams(raises, scheme, netloc, url, <<>>, fragment)

\* urlsplit from the fragment on; raises when the brackets of netloc do
\* not pair up (ValueError: Invalid IPv6 URL).  Later Python versions also
\* reject a bracketed host that is no IPv6 address, which only adds hrefs
\* that raise.
UrlFragment(scheme, netloc, url) ==
  LET raises == (Find(netloc, "[", 1) > 0) # (Find(netloc, "]", 1) > 0)
  IN IF Find(url, "#", 1) > 0
       THEN UrlQuery(raises, scheme, netloc, SplitOnce(url, "#")[1],
                     SplitOnce(url, "#")[2])
     ELSE UrlQuery(raises, scheme, netloc, url, <<>>)

\* urlsplit from the netloc on.
UrlNetloc(scheme, url) ==
  IF StartsWith(url, <<"/", "/">>)
    THEN UrlFragment(scheme, splitnetloc(url)[1], splitnetloc(url)[2])
  ELSE UrlFragment(scheme, <<>>, url)

\* urlparse(href): the six components, and raises = TRUE when urlsplit
\* raises ValueError.  The scheme is kept as written (the program only
\* tests it for emptiness).  The stripping of control characters and
\* spaces is left out: the hrefs modelled hold none.
urlparse(href) ==
  IF SchemeLen(href) > 0
    THEN UrlNetloc(SubSeq(href, 1, SchemeLen(href)), From(href, SchemeLen(href) + 2))
  ELSE UrlNetloc(<<>>, href)

\* ------------------------------------------------------------------------
\* GetFilePaths.
\* ------------------------------------------------------------------------

\* Directories are searched for files matching any of these patterns.
FILE_PATTERNS ==
  << <<"*", ".", "h", "t", "m">>, <<"*", ".", "H", "T", "M">>,
     <<"*", ".", "h", "t", "m", "l">>, <<"*", ".", "H", "T", "M", "L">> >>

\* fnmatch.fnmatch(name, pattern) for a pattern '*' + literal.
fnmatch(name, pattern) == EndsWith(name, Tail(pattern))

\* fnmatch.filter(names, pattern)
fnfilter(names, pattern) == SelectSeq(names, LAMBDA n : fnmatch(n, pattern))

\* The names os.scandir finds in directory top, in sorted order (the order
\* scandir gives is unspecified; GetFilePaths sorts at the end).
Listing(top) ==
  LET d == Stat(top)
  IN SetToList({basename(e) : e \in {x \in Entries : x # ROOT /\ dirname(x) = d}})

\* os.walk(top): the sequence of <<root, dirnames, filenames>>, top-down,
\* symbolic links to directories listed but not entered.  WalkDir is the
\* walk of a directory holding names; WalkAll the loop over dirnames.
RECURSIVE walk(_)
RECURSIVE WalkDir(_, _)
RECURSIVE WalkAll(_, _)
walk(top) == IF ~isdir(top) THEN <<>> ELSE WalkDir(top, Listing(top))

WalkDir(top, names) ==
  << <<top,
       SelectSeq(names, LAMBDA n : isdir(join(top, n))),
       SelectSeq(names, LAMBDA n : ~isdir(join(top, n)))>> >>
  \o WalkAll(top, SelectSeq(names, LAMBDA n : isdir(join(top, n))))

WalkAll(top, dirnames) ==
  IF dirnames = <<>> THEN <<>>
  ELSE (IF islink(join(top, Head(dirnames))) THEN <<>>
        ELSE walk(join(top, Head(dirnames))))
       \o WalkAll(top, Tail(dirnames))

\* fns after the loop over FILE_PATTERNS, from pattern number k on.
RECURSIVE MatchPatterns(_, _)
MatchPatterns(filenames, k) ==
  IF k > Len(FILE_PATTERNS) THEN <<>>
  ELSE fnfilter(filenames, FILE_PATTERNS[k]) \o MatchPatterns(filenames, k + 1)

\* paths += [realpath(join(root, fn)) for fn in fns]
RealPaths(root, fns) == [i \in 1..Len(fns) |-> realpath(join(root, fns[i]))]

RECURSIVE PathsOfWalk(_)
PathsOfWalk(triples) ==
  IF triples = <<>> THEN <<>>
  ELSE RealPaths(Head(triples)[1], MatchPatterns(Head(triples)[3], 1))
       \o PathsOfWalk(Tail(triples))

GetPathsForDir(directory) == PathsOfWalk(walk(directory))

\* all_paths after the loop over file_and_dir_paths.
RECURSIVE AllPaths(_)
AllPaths(file_and_dir_paths) ==
  IF file_and_dir_paths = <<>> THEN <<>>
  ELSE (IF isdir(Head(file_and_dir_paths))
          THEN GetPathsForDir(Head(file_and_dir_paths))
        ELSE <<realpath(Head(file_and_dir_paths))>>)
       \o AllPaths(Tail(file_and_dir_paths))

GetFilePaths(file_and_dir_paths) == sorted(AllPaths(file_and_dir_paths))

\* args.inputs or '.': with no arguments GetFilePaths iterates over the
\* string '.', one character at a time.
InputsOrDot(args) ==
  IF args # <<>> THEN args
  ELSE LET dot == <<".">> IN [i \in 1..Len(dot) |-> <<dot[i]>>]

\* ------------------------------------------------------------------------
\* The documents.
\* ------------------------------------------------------------------------

\* Fragment names: 't' and 't:u'.
FRAG_T == <<"t">>

FRAG_TU == <<"t", ":", "u">>

\* href values found in <a href> elements.
H_FRAG == <<"#", "t">>

H_FILE_FRAG == <<"s", "/", "i", "n", "d", "e", "x", ".", "h", "t", "m", "l", "#", "t">>

H_LINK_FRAG == <<"l", "/", "i", "n", "d", "e", "x", ".", "h", "t", "m", "l", "#", "t">>

H_DIR_FRAG == <<"s", "#", "t">>

H_DIR == <<"s">>

H_FILE == <<"p">>

H_MISSING == <<"m">>

H_ABS_DOTDOT ==
  <<"/", "d", "/", ".", ".", "/", "d", "/", "s", "/", "i", "n", "d", "e", "x", ".", "h", "t", "m", "l", "#", "t">>

H_BAD_IPV6 == <<"/", "/", "[">>

H_COLON ==
  <<".", "/", "s", "/", "i", "n", "d", "e", "x", ".", "h", "t", "m", "l", ":", "t", "#", "u">>

H_EXTERNAL == <<"x", ":", "y">>

HrefPool ==
  {H_FRAG, H_FILE_FRAG, H_LINK_FRAG, H_DIR_FRAG, H_DIR, H_FILE, H_MISSING,
   H_ABS_DOTDOT, H_BAD_IPV6, H_COLON, H_EXTERNAL}

\* What lxml makes of a file: parses = FALSE when etree.parse raises;
\* otherwise rootid holds the id of the root element (if it has one), ids
\* the id values of the elements below the root, names the name values of
\* the <a> elements, links the href values of the <a> elements in document
\* order (element number i is on source line i).
Unparseable ==
  [parses |-> FALSE, rootid |-> {}, ids |-> {}, names |-> {}, links |-> <<>>]

Doc(rootid, ids, names, links) ==
  [parses |-> TRUE, rootid |-> rootid, ids |-> ids, names |-> names, links |-> links]

AnchorChoices ==
  { <<{}, {}, {}>>, <<{}, {FRAG_T}, {}>>, <<{}, {}, {FRAG_T}>>,
    <<{FRAG_T}, {}, {}>>, <<{}, {FRAG_TU}, {}>> }

LinkLists(n) == UNION {[1..k -> HrefPool] : k \in 0..n}

\* Possible contents of /d/s/index.html and of /d/b.htm.
DocsA ==
  {Unparseable} \cup
  {Doc(a[1], a[2], a[3], l) : a \in AnchorChoices, l \in LinkLists(MaxLinks)}

DocsB ==
  {Unparseable} \cup {Doc({}, {}, {}, l) : l \in LinkLists(MaxLinks)}

FileSystems ==
  {f \in [{FILE_A, FILE_B} -> DocsA \cup DocsB] :
     /\ f[FILE_A] \in DocsA
     /\ f[FILE_B] \in DocsB
     /\ Len(f[FILE_A].links) + Len(f[FILE_B].links) <= MaxLinks}

\* Lists ProcessPaths may be handed, and command lines.
PathLists == UNION {[1..k -> {FILE_A, FILE_B}] : k \in 0..MaxPaths}

ARG_DOT == <<".">>

ARG_S == <<"s">>

ARG_L == <<"l">>

ARG_B == <<"b", ".", "h", "t", "m">>

ArgPool == {ARG_DOT, ARG_S, ARG_L, ARG_B, FILE_B}

ArgLists == UNION {[1..k -> ArgPool] : k \in 0..MaxArgs}

\* ------------------------------------------------------------------------
\* FileProcessor.
\* ------------------------------------------------------------------------

\* A line group printed to standard output.
ParseError(path) ==
  [kind |-> "unable_to_parse", path |-> path, line |-> 0, href |-> <<>>]

BrokenLink(path, line, href) ==
  [kind |-> "broken_link", path |-> path, line |-> line, href |-> href]

\* etree.parse(path, parser).getroot() for a path that stat finds at
\* entry: the document, or Unparseable when the parse raises (no such
\* file, a directory, or content lxml rejects).
TreeAt(fs, entry) == IF entry \in DOMAIN fs THEN fs[entry] ELSE Unparseable

ParseTree(fs, path) == TreeAt(fs, Stat(path))

\* What _ParseFile prints.
ParseFileOutput(fs, path) ==
  IF ParseTree(fs, path).parses THEN <<>> ELSE <<ParseError(path)>>

\* f'{path}:{element_name}'
AnchorKey(path, element_name) == path \o <<":">> \o element_name

\* PairsOfRoot with the test of root dropped: the file itself is added as
\* a target before the parse result is looked at.
PairsIgnoringFailure(path, root) ==
  {<<path, <<>>>>}
  \cup {<<path, n>> : n \in root.names}
  \cup {<<path, i>> : i \in root.ids}

\* The (path, element_name) pairs _CollectAnchors passes to _AddAnchor
\* when _ParseFile returned root.  './/a[@name]' and './/*[@id]' select
\* elements below the root only.
PairsOfRoot(path, root) ==
  IF root.parses
    THEN {<<path, <<>>>>}
         \cup {<<path, n>> : n \in root.names}
         \cup {<<path, i>> : i \in root.ids}
  ELSE {}

CollectedPairs(fs, path) == PairsOfRoot(path, ParseTree(fs, path))

\* ref_path of _GetAnchor before the fragment test.
RefPath(path, url) ==
  IF url.path # <<>>
    THEN IF isabs(url.path) THEN url.path
         ELSE realpath(normpath(join(dirname(path), url.path)))
  ELSE path

\* What _GetAnchor returns: raises = TRUE when urlparse raised; otherwise
\* anchor is the string returned, built from file_path and fragment.
NoAnchor(raises) ==
  [raises |-> raises, anchor |-> <<>>, file_path |-> <<>>, fragment |-> <<>>]

Anchor(file_path, fragment) ==
  [raises |-> FALSE, anchor |-> AnchorKey(file_path, fragment),
   file_path |-> file_path, fragment |-> fragment]

\* _GetAnchor from the fragment test on.
AnchorOfRefPath(ref_path, fragment) ==
  IF fragment = <<>>
    THEN IF exists(ref_path) THEN NoAnchor(FALSE) ELSE Anchor(ref_path, fragment)
  ELSE IF isdir(ref_path)
    THEN Anchor(ref_path \o <<"/", "i", "n", "d", "e", "x", ".", "h", "t", "m", "l">>,
                fragment)
  ELSE Anchor(ref_path, fragment)

\* _GetAnchor after url = urlparse(href).
AnchorOfUrl(path, url) ==
  IF url.raises THEN NoAnchor(TRUE)
  ELSE IF url.scheme # <<>> THEN NoAnchor(FALSE)
  ELSE AnchorOfRefPath(RefPath(path, url), url.fragment)

GetAnchor(path, href) == AnchorOfUrl(path, urlparse(href))

\* IsBroken without the test that _GetAnchor returned an anchor.
IsBrokenUnguarded(anchor, anchorset) == anchor \notin anchorset

\* The test of _FindBrokenLinks: anchor and not anchor in self._anchors.
IsBroken(anchor, anchorset) == anchor # <<>> /\ anchor \notin anchorset

\* What one iteration of the loop of _FindBrokenLinks adds, for link
\* number i whose _GetAnchor result is r: the report printed and the lookup
\* made in the anchor set.
LinkOutput(path, i, href, r, anchorset) ==
  IF IsBroken(r.anchor, anchorset) THEN <<BrokenLink(path, i, href)>> ELSE <<>>

LinkLookups(path, i, href, r, anchorset) ==
  IF r.anchor # <<>>
    THEN {[src |-> path, line |-> i, href |-> href,
           file_path |-> r.file_path, fragment |-> r.fragment,
           reported |-> IsBroken(r.anchor, anchorset), seen |-> anchorset]}
  ELSE {}

\* The loop of _FindBrokenLinks over the links from number i on: what it
\* prints, the lookups it makes, and whether _GetAnchor raised.
RECURSIVE FindLoop(_, _, _, _)
RECURSIVE FindRest(_, _, _, _, _)
FindLoop(path, links, i, anchorset) ==
  IF i > Len(links) THEN [out |-> <<>>, lookups |-> {}, raised |-> FALSE]
  ELSE FindRest(path, links, i, anchorset, GetAnchor(path, links[i]))

FindRest(path, links, i, anchorset, r) ==
  IF r.raises THEN [out |-> <<>>, lookups |-> {}, raised |-> TRUE]
  ELSE [out     |-> LinkOutput(path, i, links[i], r, anchorset)
                    \o FindLoop(path, links, i + 1, anchorset).out,
        lookups |-> LinkLookups(path, i, links[i], r, anchorset)
                    \cup FindLoop(path, links, i + 1, anchorset).lookups,
        raised  |-> FindLoop(path, links, i + 1, anchorset).raised]

\* ProcessPathsCall with one loop that collects and validates each path in
\* turn.
ProcessPathsInterleaved(k, n) ==
  IF k % 2 = 1 THEN [pass |-> "collect", index |-> (k + 1) \div 2]
  ELSE [pass |-> "find", index |-> k \div 2]

\* ProcessPathsCall with the two loops in the opposite order.
ProcessPathsFindFirst(k, n) ==
  IF k <= n THEN [pass |-> "find", index |-> k]
  ELSE [pass |-> "collect", index |-> k - n]

\* Call number k (1..2n) of ProcessPaths on a list of n paths: one
\* _CollectAnchors per path, then one _FindBrokenLinks per path.
ProcessPathsCall(k, n) ==
  IF k <= n THEN [pass |-> "collect", index |-> k]
  ELSE [pass |-> "find", index |-> k - n]

\* ------------------------------------------------------------------------
\* The state machine.
\* ------------------------------------------------------------------------

\* A new FileProcessor about to run ProcessPaths.
NewProcessor ==
  /\ step' = 0
  /\ anchors' = {}
  /\ out' = <<>>
  /\ calls' = <<>>
  /\ added' = {}
  /\ lookups' = {}

\* ProcessPaths is called directly with a list of resolved paths.
Init ==
  /\ files \in FileSystems
  /\ inputs = <<>>
  /\ paths \in PathLists
  /\ pc = "run"
  /\ step = 0
  /\ anchors = {}
  /\ out = <<>>
  /\ calls = <<>>
  /\ added = {}
  /\ lookups = {}
  /\ run = 1
  /\ prev_paths = <<>>
  /\ prev_out = <<>>
  /\ prev_pc = "none"

\* The program is started from the command line.
InitMain ==
  /\ files \in FileSystems
  /\ inputs \in ArgLists
  /\ paths = <<>>
  /\ pc = "start"
  /\ step = 0
  /\ anchors = {}
  /\ out = <<>>
  /\ calls = <<>>
  /\ added = {}
  /\ lookups = {}
  /\ run = 1
  /\ prev_paths = <<>>
  /\ prev_out = <<>>
  /\ prev_pc = "none"

\* main up to the call of ProcessPaths.
Main ==
  /\ pc = "start"
  /\ paths' = GetFilePaths(InputsOrDot(inputs))
  /\ pc' = "run"
  /\ UNCHANGED <<files, inputs, step, anchors, out, calls, added, lookups,
                 run, prev_paths, prev_out, prev_pc>>

\* The path ProcessPaths passes in its call number k.
PathOfCall(k) == paths[ProcessPathsCall(k, Len(paths)).index]

\* self._CollectAnchors(path)
CollectAnchorsOf(path, pairs) ==
  /\ out' = out \o ParseFileOutput(files, path)
  /\ anchors' = anchors \cup {AnchorKey(pr[1], pr[2]) : pr \in pairs}
  /\ added' = added \cup pairs
  /\ calls' = Append(calls, <<"collect", path>>)

\* One call self._CollectAnchors(path) of the first loop.
CollectAnchors ==
  /\ pc = "run"
  /\ step < 2 * Len(paths)
  /\ ProcessPathsCall(step + 1, Len(paths)).pass = "collect"
  /\ CollectAnchorsOf(PathOfCall(step + 1), CollectedPairs(files, PathOfCall(step + 1)))
  /\ step' = step + 1
  /\ UNCHANGED <<files, inputs, paths, pc, lookups, run, prev_paths, prev_out, prev_pc>>

\* self._FindBrokenLinks(path), res being the result of its loop.
FindBrokenLinksOf(path, res) ==
  /\ out' = out \o ParseFileOutput(files, path) \o res.out
  /\ lookups' = lookups \cup res.lookups
  /\ calls' = Append(calls, <<"find", path>>)
  /\ pc' = IF res.raised THEN "crashed" ELSE "run"

\* One call self._FindBrokenLinks(path) of the second loop; an exception
\* raised in it leaves ProcessPaths and ends the program.
FindBrokenLinks ==
  /\ pc = "run"
  /\ step < 2 * Len(paths)
  /\ ProcessPathsCall(step + 1, Len(paths)).pass = "find"
  /\ FindBrokenLinksOf(PathOfCall(step + 1),
                       FindLoop(PathOfCall(step + 1),
                                ParseTree(files, PathOfCall(step + 1)).links, 1, anchors))
  /\ step' = step + 1
  /\ UNCHANGED <<files, inputs, paths, anchors, added, run, prev_paths, prev_out, prev_pc>>

\* ProcessPaths returns after its two loops and main ends.
Return ==
  /\ pc = "run"
  /\ step = 2 * Len(paths)
  /\ pc' = "done"
  /\ UNCHANGED <<files, inputs, paths, step, anchors, out, calls, added, lookups,
                 run, prev_paths, prev_out, prev_pc>>

RECURSIVE Reverse(_)
Reverse(list) ==
  IF list = <<>> THEN <<>> ELSE Append(Reverse(Tail(list)), Head(list))

\* A second run on the same files: a new FileProcessor is handed the same
\* paths in the opposite order.
RunReversed ==
  /\ pc \in {"done", "crashed"}
  /\ run = 1
  /\ Reverse(paths) # paths
  /\ run' = 2
  /\ prev_paths' = paths
  /\ prev_out' = out
  /\ prev_pc' = pc
  /\ paths' = Reverse(paths)
  /\ pc' = "run"
  /\ NewProcessor
  /\ UNCHANGED <<files, inputs>>

Next == CollectAnchors \/ FindBrokenLinks \/ Return \/ RunReversed

Spec == Init /\ [][Next]_vars

NextMain == Main \/ CollectAnchors \/ FindBrokenLinks \/ Return

SpecMain == InitMain /\ [][NextMain]_vars

\* ------------------------------------------------------------------------
\* Properties.
\* ------------------------------------------------------------------------

Finished == pc \in {"done", "crashed"}

Range(list) == {list[i] : i \in DOMAIN list}

Count(list, e) == Cardinality({i \in DOMAIN list : list[i] = e})

Occurrences(list, path) == Cardinality({i \in DOMAIN list : list[i][2] = path})

\* What was printed about file f.
OutputOf(list, f) == SelectSeq(list, LAMBDA e : e.path = f)

BrokenReports(list) == {i \in DOMAIN list : list[i].kind = "broken_link"}

\* The anchor set a complete collection pass over paths builds.
CompleteAnchorSet ==
  {AnchorKey(pr[1], pr[2]) :
     pr \in UNION {CollectedPairs(files, paths[k]) : k \in DOMAIN paths}}

\* C1: no _FindBrokenLinks call is made before _CollectAnchors has been
\* called for every path of the list, in list order, and every lookup of
\* the validation pass is made in the complete anchor set.
C1_CollectionBeforeValidation ==
  /\ \A j \in DOMAIN calls :
       calls[j][1] = "find" =>
         /\ j > Len(paths)
         /\ \A k \in DOMAIN paths : calls[k] = <<"collect", paths[k]>>
  /\ \A l \in lookups : l.seen = CompleteAnchorSet

\* C1 witness: the first file of a two-file list has made a lookup, and
\* the second file, collected after it, contributes anchors.
C1_Witness ==
  /\ pc = "done"
  /\ Len(paths) = 2
  /\ paths[1] # paths[2]
  /\ \E l \in lookups : l.src = paths[1]
  /\ CollectedPairs(files, paths[2]) # {}

\* File b holds, as link number i, a link that resolves to anchor frag of
\* file a, which a defines below its root.
LinksTo(b, i, a, frag) ==
  /\ ParseTree(files, a).parses
  /\ frag \in ParseTree(files, a).ids \cup ParseTree(files, a).names
  /\ ParseTree(files, b).parses
  /\ i \in DOMAIN ParseTree(files, b).links
  /\ ~GetAnchor(b, ParseTree(files, b).links[i]).raises
  /\ GetAnchor(b, ParseTree(files, b).links[i]).file_path = a
  /\ GetAnchor(b, ParseTree(files, b).links[i]).fragment = frag

C3_EveryIdRegistered ==
  step >= Len(paths) =>
    \A k \in DOMAIN paths :
      \A x \in ParseTree(files, paths[k]).rootid \cup ParseTree(files, paths[k]).ids :
        /\ <<paths[k], x>> \in added
        /\ \A l \in lookups :
             (l.file_path = paths[k] /\ l.fragment = x) => ~l.reported

\* Link number i of file p has no scheme and no fragment and its resolved
\* path exists.
PlainLinkToExisting(p, href) ==
  /\ ~urlparse(href).raises
  /\ urlparse(href).scheme = <<>>
  /\ urlparse(href).fragment = <<>>
  /\ exists(RefPath(p, urlparse(href)))

\* C4: a link with no scheme and no fragment whose resolved path exists is
\* never reported.
C4_ExistingPathNeverReported ==
  \A j \in BrokenReports(out) : ~PlainLinkToExisting(out[j].path, out[j].href)

\* C4 witness: /d/b.htm links to /d/p, a file that is never processed, and
\* has been validated without a report.
C4_Witness ==
  /\ pc = "done"
  /\ FILE_B \in Range(paths)
  /\ ParseTree(files, FILE_B).links = <<H_FILE>>
  /\ PlainLinkToExisting(FILE_B, H_FILE)
  /\ out = <<>>

\* The index page a link with a fragment to directory ref_path is checked
\* against.
IndexPage(ref_path) ==
  Stat(ref_path \o <<"/", "i", "n", "d", "e", "x", ".", "h", "t", "m", "l">>)

\* File p is processed and defines id x.
DefinesId(p, x) ==
  /\ p \in Range(paths)
  /\ ParseTree(files, p).parses
  /\ x \in ParseTree(files, p).rootid \cup ParseTree(files, p).ids

\* C5: after a complete run, a link with a fragment x whose resolved path
\* is a directory has no report when the directory's index.html is
\* processed and defines id x, and exactly one report otherwise.
C5_DirectoryLinkUsesIndex ==
  pc = "done" =>
    \A p \in {q \in Range(paths) : Count(paths, q) = 1} :
      \A i \in DOMAIN ParseTree(files, p).links :
        LET href == ParseTree(files, p).links[i]
            url  == urlparse(href)
        IN (/\ ~url.raises
            /\ url.scheme = <<>>
            /\ url.fragment # <<>>
            /\ isdir(RefPath(p, url))) =>
             Count(out, BrokenLink(p, i, href)) =
               IF DefinesId(IndexPage(RefPath(p, url)), url.fragment) THEN 0 ELSE 1

\* C6 as stated: over a complete run a file that fails to parse gets
\* exactly one diagnostic, adds no anchor and has no link reported.
C6_ExactlyOneDiagnostic ==
  pc = "done" =>
    \A p \in Range(paths) :
      ~ParseTree(files, p).parses =>
        /\ Count(out, ParseError(p)) = 1
        /\ \A pr \in added : pr[1] # p
        /\ \A j \in BrokenReports(out) : out[j].path # p

\* C6 amended: a file that fails to parse gets exactly one diagnostic each
\* time it is parsed (once per pass and per occurrence in the list, so two
\* per occurrence over a complete run), adds no anchor, has no link
\* reported, and never ends the run.
C6_OneDiagnosticPerParse ==
  \A p \in Range(paths) :
    ~ParseTree(files, p).parses =>
      /\ Count(out, ParseError(p)) = Occurrences(calls, p)
      /\ pc = "done" => Count(out, ParseError(p)) = 2 * Count(paths, p)
      /\ \A pr \in added : pr[1] # p
      /\ \A j \in BrokenReports(out) : out[j].path # p
      /\ (pc = "crashed" => calls[Len(calls)][2] # p)

\* C6 witness: the first file of the list fails to parse and the second
\* has been collected and validated after it, with a broken link reported.
C6_Witness ==
  /\ pc = "done"
  /\ Len(paths) = 2
  /\ ~ParseTree(files, paths[1]).parses
  /\ ParseTree(files, paths[2]).parses
  /\ Count(out, ParseError(paths[1])) = 2
  /\ \E pr \in added : pr[1] = paths[2]
  /\ \E j \in BrokenReports(out) : out[j].path = paths[2]

\* C7: the run never ends in an unhandled exception.
C7_NoUnhandledFault == pc # "crashed"

\* C8: the list GetFilePaths returns is sorted, absolute and free of
\* duplicates.
C8_SortedAbsoluteDistinct ==
  pc # "start" =>
    /\ \A i \in DOMAIN paths : isabs(paths[i]) /\ realpath(paths[i]) = paths[i]
    /\ \A i, j \in DOMAIN paths : i < j => ~StrLess(paths[j], paths[i])
    /\ \A i, j \in DOMAIN paths : i # j => paths[i] # paths[j]

\* C9: the file_path of every anchor target formed, for insertion or for
\* lookup, is absolute and normalized.
C9_FilePathNormalized ==
  /\ \A pr \in added : isabs(pr[1]) /\ realpath(pr[1]) = pr[1]
  /\ \A l \in lookups : isabs(l.file_path) /\ realpath(l.file_path) = l.file_path

\* C10: the key of a (file_path, fragment) pair determines the pair, so a
\* link is left unreported only if the collection pass registered exactly
\* its pair.
C10_KeyInjective ==
  /\ \A l \in lookups : ~l.reported => <<l.file_path, l.fragment>> \in added
  /\ \A pr \in added, l \in lookups :
       AnchorKey(pr[1], pr[2]) = AnchorKey(l.file_path, l.fragment) =>
         (pr[1] = l.file_path /\ pr[2] = l.fragment)

====
